---- MODULE Spec2Model ----
(***************************************************************************)
(* A model of kano_wando.py: the Wand session (connection flag, listener   *)
(* maps, memoized one-shot reads, notification dispatch) and the Shop      *)
(* scanner (selector fields, discovery filter).                            *)
(*                                                                         *)
(* The BLE stack (bleak) is an external collaborator.  Every call the code *)
(* makes on it is recorded in `calls`; whether the call succeeds is a      *)
(* nondeterministic choice.  A bleak client method is a coroutine          *)
(* function: calling it builds a coroutine object and performs nothing     *)
(* until that object is awaited.                                           *)
(*                                                                         *)
(* Wand.__init__ starts with super().__init__(None), which a plain Wand    *)
(* forwards to object.__init__ (TypeError).  The session state below is    *)
(* that of a Wand built through a subclass whose next base accepts the     *)
(* argument, which is how wand_class is meant to be used.                  *)
(*                                                                         *)
(* Callbacks passed to on() are callables, as its docstring requires.      *)
(***************************************************************************)
EXTENDS Integers, Sequences, FiniteSets, TLC

\* ------------------------------------------------------------------ bounds
\* ids uuid.uuid4() can hand out in one behaviour
MaxIds == 2
\* devices one discover() call can return
MaxDevices == 2
\* wands one Shop can hold through direct handleDiscovery calls
MaxWands == 2

\* ------------------------------------------------------------ Python values
None == <<"None">>
Bool(b) == <<"bool", b>>
Id(n) == <<"id", n>>
Str(s) == <<"str", s>>
Bytes(s) == <<"bytes", s>>

NoRaise == "none"

\* ---------------------------------------------------------------- the enums
\* members of the characteristic enums
EnumMembers(enum) ==
    CASE enum = "_INFO" ->
           {"SERVICE", "ORGANIZATION_CHAR", "SOFTWARE_CHAR", "HARDWARE_CHAR"}
      [] enum = "_IO" ->
           {"SERVICE", "BATTERY_CHAR", "USER_BUTTON_CHAR", "VIBRATOR_CHAR",
            "LED_CHAR", "KEEP_ALIVE_CHAR"}
      [] enum = "_SENSOR" ->
           {"SERVICE", "TEMP_CHAR", "QUATERNIONS_CHAR", "MAGN_CALIBRATE_CHAR",
            "QUATERNIONS_RESET_CHAR"}

\* getattr on an enum class: a missing member raises AttributeError
HasMember(ref) == ref[2] \in EnumMembers(ref[1])

\* the event strings on() dispatches on
Events == <<"position", "button", "temp", "battery">>
EventSet == {Events[i] : i \in 1..Len(Events)}

\* the characteristic on()/off() name for each event
NotifyRef(event) ==
    CASE event = "position" -> <<"_SENSOR", "POSITION_CHAR">>
      [] event = "button"   -> <<"_IO", "USER_BUTTON_CHAR">>
      [] event = "temp"     -> <<"_SENSOR", "TEMPERATURE_CHAR">>
      [] event = "battery"  -> <<"_SENSOR", "BATTERY_CHAR">>

\* the one-shot reads
ReadKinds ==
    {"organization", "software", "hardware", "battery", "button", "temperature"}

\* the characteristic each get_* names
ReadRef(kind) ==
    CASE kind = "organization" -> <<"_INFO", "ORGANIZATION_CHAR">>
      [] kind = "software"     -> <<"_INFO", "SOFTWARE_CHAR">>
      [] kind = "hardware"     -> <<"_INFO", "HARDWARE_CHAR">>
      [] kind = "battery"      -> <<"_IO", "BATTERY_CHAR">>
      [] kind = "button"       -> <<"_IO", "USER_BUTTON_CHAR">>
      [] kind = "temperature"  -> <<"_SENSOR", "TEMP_CHAR">>

\* get_* that write `await self.client.read_gatt_char(...)[0]`: the
\* subscript binds tighter than await and is applied to the coroutine object
SubscriptsCoroutine(kind) == kind # "organization"

\* ---------------------------------------------------------------- inputs
\* callables handed to on(); "boom" raises when it is invoked
Callbacks == {"f", "boom"}
CallbackRaises(cb) == cb = "boom"

\* byte strings the transport can return from a read
ReadValues == {<<1>>, <<65>>}

VARIABLES
    connected,      \* Wand.connected
    link,           \* whether self.client holds a live link
    callbacks,      \* the four _*_callbacks dicts, in insertion order
    subscribed,     \* the four _*_subscribed flags
    cached,         \* the memoized attributes of get_* (None: not set)
    nextId,         \* the next id uuid.uuid4() returns
    pinned,         \* per event: the dict is empty and the removal that
                    \* emptied it was made with continue_notifications
    op,             \* the operation performed by the last step
    calls,          \* the transport calls that operation made, in order
    invoked,        \* the hooks and callbacks that operation invoked, in order
    shopName,       \* Shop._name
    shopPrefix,     \* Shop._prefix
    shopMac,        \* Shop._mac
    wands           \* Shop.wands; the attribute exists once a scan has set it

vars == <<connected, link, callbacks, subscribed, cached, nextId, pinned, op,
          calls, invoked, shopName, shopPrefix, shopMac, wands>>

wandVars == <<connected, link, callbacks, subscribed, cached, nextId, pinned>>
shopVars == <<shopName, shopPrefix, shopMac, wands>>

Op(name, args, cls, ret, raised) ==
    [name |-> name, args |-> args, cls |-> cls, ret |-> ret, raised |-> raised]

NoClass == "-"
NoArgs == [none |-> TRUE]

\* ---------------------------------------------------------------- Wand
WandInit ==
    /\ connected = FALSE
    /\ link = FALSE
    /\ callbacks = [e \in EventSet |-> <<>>]
    /\ subscribed = [e \in EventSet |-> FALSE]
    /\ cached = [k \in ReadKinds |-> None]
    /\ nextId = 1
    /\ pinned = [e \in EventSet |-> FALSE]

ShopInit ==
    /\ shopName = None
    /\ shopPrefix = None
    /\ shopMac = None
    /\ wands = [exists |-> FALSE, items |-> <<>>]

Init ==
    /\ WandInit
    /\ ShopInit
    /\ op = Op("init", NoArgs, NoClass, None, NoRaise)
    /\ calls = <<>>
    /\ invoked = <<>>

\* outcomes of a transport call on self.client: it can succeed only over a
\* live link, and it can always fail
Outcomes == IF link THEN BOOLEAN ELSE {FALSE}

\* Wand.connect
Connect ==
    \E ok \in BOOLEAN, up \in BOOLEAN :
        /\ IF ok
              THEN /\ connected' = up
                   /\ link' = up
                   /\ calls' = <<<<"connect">>, <<"is_connected">>>>
                   /\ op' = Op("connect", NoArgs, NoClass, None, NoRaise)
              ELSE /\ up = FALSE
                   /\ connected' = connected
                   /\ link' = FALSE
                   /\ calls' = <<<<"connect">>>>
                   /\ op' = Op("connect", NoArgs, NoClass, None, "TransportError")
        /\ invoked' = <<>>
        /\ UNCHANGED <<callbacks, subscribed, cached, nextId, pinned, shopVars>>

\* Wand.disconnect
Disconnect ==
    \E ok \in BOOLEAN :
        /\ calls' = <<<<"disconnect">>>>
        /\ IF ok
              THEN /\ connected' = FALSE
                   /\ link' = FALSE
                   /\ subscribed' = [e \in EventSet |-> FALSE]
                   /\ op' = Op("disconnect", NoArgs, NoClass, None, NoRaise)
              ELSE /\ UNCHANGED <<connected, link, subscribed>>
                   /\ op' = Op("disconnect", NoArgs, NoClass, None, "TransportError")
        /\ invoked' = <<>>
        /\ UNCHANGED <<callbacks, cached, nextId, pinned, shopVars>>

\* the ids held by one listener dict
Ids(event) == {callbacks[event][i].id : i \in 1..Len(callbacks[event])}

\* the test written as `is None`
HoldsNegated(event, uuid) == uuid \notin Ids(event)

\* `dict.pop(uuid, None) is not None`
Holds(event, uuid) == uuid \in Ids(event)

\* dict.pop(uuid, None): the dict without the key
Pop(listeners, uuid) == SelectSeq(listeners, LAMBDA l : l.id # uuid)

\* the test without `not continue_notifications`
ShouldStopIgnoringPersist(continue_notifications, remaining) ==
    Len(remaining) = 0

\* `not continue_notifications and len(callbacks) == 0`
ShouldStop(continue_notifications, remaining) ==
    ~continue_notifications /\ Len(remaining) = 0

\* `if event == ...` for one branch of on(): every branch inserts
OnInserts(event) == event \in EventSet

\* Wand.on
On(event, callback) ==
    /\ invoked' = <<>>
    /\ UNCHANGED <<connected, link, subscribed, cached, shopVars>>
    /\ IF OnInserts(event)
          THEN /\ nextId <= MaxIds
               /\ pinned' = [pinned EXCEPT ![event] = FALSE]
               /\ nextId' = nextId + 1
               /\ callbacks' = [callbacks EXCEPT ![event] =
                      Append(@, [id |-> nextId, cb |-> callback])]
               /\ IF HasMember(NotifyRef(event))
                     THEN \E ok \in Outcomes :
                            /\ calls' = <<<<"start_notify", NotifyRef(event)[2]>>>>
                            /\ op' = Op("on", [event |-> event, callback |-> callback],
                                        event,
                                        IF ok THEN Id(nextId) ELSE None,
                                        IF ok THEN NoRaise ELSE "TransportError")
                     ELSE /\ calls' = <<>>
                          /\ op' = Op("on", [event |-> event, callback |-> callback],
                                      event, None, "AttributeError")
          ELSE /\ calls' = <<>>
               /\ op' = Op("on", [event |-> event, callback |-> callback],
                           NoClass, None, NoRaise)
               /\ UNCHANGED <<callbacks, nextId, pinned>>

\* the if/elif chain of off(): the first dict, in the order of the chain,
\* that holds the id
OffClass(uuid) ==
    IF \E i \in 1..Len(Events) : Holds(Events[i], uuid)
       THEN Events[CHOOSE i \in 1..Len(Events) :
                     /\ Holds(Events[i], uuid)
                     /\ \A j \in 1..(i - 1) : ~Holds(Events[j], uuid)]
       ELSE NoClass

\* Wand.off
Off(uuid, continue_notifications) ==
    LET event == OffClass(uuid)
        args == [uuid |-> uuid, persist |-> continue_notifications]
    IN  /\ invoked' = <<>>
        /\ UNCHANGED <<connected, link, subscribed, cached, nextId, shopVars>>
        /\ IF event = NoClass
              THEN /\ calls' = <<>>
                   /\ op' = Op("off", args, NoClass, Bool(FALSE), NoRaise)
                   /\ UNCHANGED <<callbacks, pinned>>
              ELSE LET remaining == Pop(callbacks[event], uuid)
                   IN  /\ callbacks' = [callbacks EXCEPT ![event] = remaining]
                       /\ pinned' = [pinned EXCEPT ![event] =
                                      continue_notifications /\ remaining = <<>>]
                       /\ IF ShouldStop(continue_notifications, remaining)
                             THEN IF HasMember(NotifyRef(event))
                                     THEN \E ok \in Outcomes :
                                            /\ calls' = <<<<"stop_notify", NotifyRef(event)[2]>>>>
                                            /\ op' = Op("off", args, event,
                                                 IF ok THEN Bool(TRUE) ELSE None,
                                                 IF ok THEN NoRaise ELSE "TransportError")
                                     ELSE /\ calls' = <<>>
                                          /\ op' = Op("off", args, event, None,
                                                      "AttributeError")
                             ELSE /\ calls' = <<>>
                                  /\ op' = Op("off", args, event, Bool(TRUE), NoRaise)

\* bytes.decode("utf-8") for the string reads (one code point per byte below
\* 128), `[0] == 1` for the button
ReadReturn(kind, value) ==
    IF kind = "button" THEN Bool(value[2][1] = 1) ELSE Str(value[2])

\* `if not hasattr(self, "_x")`
NotCached(kind) == cached[kind] = None

\* Wand.get_organization .. Wand.get_temperature
Get(kind) ==
    /\ invoked' = <<>>
    /\ UNCHANGED <<connected, link, callbacks, subscribed, nextId, pinned, shopVars>>
    /\ IF NotCached(kind)
          THEN IF SubscriptsCoroutine(kind)
                  THEN /\ calls' = <<>>
                       /\ cached' = cached
                       /\ op' = Op("get", [kind |-> kind], NoClass, None, "TypeError")
                  ELSE \E ok \in Outcomes, v \in ReadValues :
                         /\ calls' = <<<<"read_gatt_char", ReadRef(kind)[2]>>>>
                         /\ IF ok
                               THEN /\ cached' = [cached EXCEPT ![kind] = Bytes(v)]
                                    /\ op' = Op("get", [kind |-> kind], NoClass,
                                                ReadReturn(kind, Bytes(v)), NoRaise)
                               ELSE /\ v = CHOOSE x \in ReadValues : TRUE
                                    /\ cached' = cached
                                    /\ op' = Op("get", [kind |-> kind], NoClass,
                                                None, "TransportError")
          ELSE /\ calls' = <<>>
               /\ cached' = cached
               /\ op' = Op("get", [kind |-> kind], NoClass,
                           ReadReturn(kind, cached[kind]), NoRaise)

\* ------------------------------------------------------------ notifications
\* the handles set in Wand.__init__
PositionHandle == 41
ButtonHandle == 33
TempHandle == 56
BatteryHandle == 23

\* handleNotification's if/elif chain
EventOfHandle(cHandle) ==
    CASE cHandle = PositionHandle -> "position"
      [] cHandle = ButtonHandle   -> "button"
      [] cHandle = TempHandle     -> "temp"
      [] cHandle = BatteryHandle  -> "battery"
      [] OTHER                    -> NoClass

\* int.from_bytes(data[k:k+2], byteorder='little'); a slice past the end of
\* data is shorter, or empty
ByteAt(data, k) == IF k + 1 <= Len(data) THEN data[k + 1] ELSE 0
Word(data, k) == ByteAt(data, k) + 256 * ByteAt(data, k + 1)

\* numpy.int16(numpy.uint16(u))
Int16(u) == IF u >= 32768 THEN u - 65536 ELSE u

\* -1 * numpy.int16(v) as an int16 product, which wraps
Neg16(v) == Int16((65536 - v) % 65536)

\* how the installed numpy types `python int * numpy.int16`: "weak" (NumPy 2,
\* NEP 50) keeps int16, "value" (NumPy 1) promotes the product to int64
NumpyPromotions == {"weak", "value"}

\* -1 * numpy.int16(v)
Negate(v, promotion) == IF promotion = "weak" THEN Neg16(v) ELSE 0 - v

\* the arguments _on_* passes to the hook and to every callback
Decode(event, data, promotion) ==
    CASE event = "position" ->
           LET y == Int16(Word(data, 0))
               x == Negate(Int16(Word(data, 2)), promotion)
               w == Negate(Int16(Word(data, 4)), promotion)
               z == Int16(Word(data, 6))
           IN  <<x, y, z, w>>
      [] event = "button"  -> <<data[1] = 1>>
      [] event = "temp"    -> <<Int16(Word(data, 0))>>
      [] event = "battery" -> <<data[1]>>

\* `data[0]` on empty data raises IndexError
DecodeRaises(event, data) == event \in {"button", "battery"} /\ Len(data) = 0

\* the overridable hook of each event
HookOf(event) ==
    CASE event = "position" -> "on_position"
      [] event = "button"   -> "on_button"
      [] event = "temp"     -> "on_temperature"
      [] event = "battery"  -> "on_battery"

\* `for callback in self._*_callbacks.values(): callback(...)`: the loop ends
\* at the first callback that raises
LoopLength(listeners) ==
    IF \E i \in 1..Len(listeners) : CallbackRaises(listeners[i].cb)
       THEN CHOOSE i \in 1..Len(listeners) :
              /\ CallbackRaises(listeners[i].cb)
              /\ \A j \in 1..(i - 1) : ~CallbackRaises(listeners[j].cb)
       ELSE Len(listeners)

\* the calls one _on_* makes: the hook, then the callbacks in dict order
Dispatch(event, data, promotion) ==
    LET args == Decode(event, data, promotion)
        listeners == callbacks[event]
    IN  <<[fn |-> HookOf(event), id |-> 0, args |-> args]>> \o
        [i \in 1..LoopLength(listeners) |->
            [fn |-> listeners[i].cb, id |-> listeners[i].id, args |-> args]]

\* Wand.handleNotification
HandleNotification(cHandle, data, promotion) ==
    LET event == EventOfHandle(cHandle)
        args == [cHandle |-> cHandle, data |-> data]
    IN  /\ calls' = <<>>
        /\ UNCHANGED <<wandVars, shopVars>>
        /\ IF event = NoClass
              THEN /\ invoked' = <<>>
                   /\ op' = Op("handleNotification", args, NoClass, None, NoRaise)
              ELSE IF DecodeRaises(event, data)
                      THEN /\ invoked' = <<>>
                           /\ op' = Op("handleNotification", args, event, None,
                                       "IndexError")
                      ELSE /\ invoked' = Dispatch(event, data, promotion)
                           /\ op' = Op("handleNotification", args, event, None,
                                  IF LoopLength(callbacks[event]) < Len(callbacks[event])
                                     \/ (Len(callbacks[event]) > 0 /\
                                         CallbackRaises(callbacks[event][Len(callbacks[event])].cb))
                                     THEN "CallbackError" ELSE NoRaise)

\* the notifications the transport delivers
Handles == {PositionHandle, ButtonHandle, TempHandle, BatteryHandle, 99}
Payloads == {<<>>, <<1, 128, 1, 0, 0, 128, 255, 255>>}

\* the event names callers pass to on()
OnEvents == EventSet \cup {"gesture"}

WandNext ==
    \/ Connect
    \/ Disconnect
    \/ \E event \in OnEvents, callback \in Callbacks : On(event, callback)
    \/ \E uuid \in 1..MaxIds, persist \in BOOLEAN : Off(uuid, persist)
    \/ \E kind \in ReadKinds : Get(kind)
    \/ \E cHandle \in Handles, data \in Payloads, promotion \in NumpyPromotions :
            HandleNotification(cHandle, data, promotion)

Next == WandNext

Spec == Init /\ [][Next]_vars

\* ---------------------------------------------------------------- Shop
\* device names, one character per element
KanoWand == <<"K", "a", "n", "o", "-", "W", "a", "n", "d">>
KanoWandXYZ == KanoWand \o <<"-", "X", "Y", "Z">>

\* device addresses
AddrA == <<"a", "a">>
AddrB == <<"b", "b">>
AddrC == <<"c", "c">>

\* str.startswith
StartsWith(s, prefix) ==
    Len(prefix) <= Len(s) /\ SubSeq(s, 1, Len(prefix)) = prefix

\* the devices the transport can discover
Devices ==
    { [name |-> KanoWandXYZ, addr |-> AddrA],
      [name |-> KanoWand, addr |-> AddrB],
      [name |-> None, addr |-> AddrC] }

\* the lists discover() can return
DeviceLists ==
    UNION { { ds \in [1..n -> Devices] :
                \A i, j \in 1..n : i # j => ds[i] # ds[j] } : n \in 0..MaxDevices }

\* a keyword argument the caller leaves out
Omitted == <<"omitted">>

\* the default of scan's prefix parameter
ScanDefaultPrefix == KanoWand

\* the selector arguments callers pass to scan()
NameArgs == {None, KanoWand, KanoWandXYZ}
PrefixArgs == {Omitted, None, KanoWand}
MacArgs == {None, AddrA}

\* the assertion without prefix_check
SelectorProvidedNoPrefix(name, prefix, mac) ==
    name # None \/ mac # None

\* `name_check or prefix_check or mac_check`
SelectorProvided(name, prefix, mac) ==
    name # None \/ prefix # None \/ mac # None

\* the count handleDiscovery makes of the stored selector fields
Mode == (IF shopName # None THEN 1 ELSE 0) + (IF shopPrefix # None THEN 1 ELSE 0)
        + (IF shopMac # None THEN 1 ELSE 0)

\* the count handleDiscovery makes of the stored fields the device matches
Found(device) ==
    (IF shopName # None /\ device.name = shopName THEN 1 ELSE 0)
    + (IF shopPrefix # None /\ device.name # None
          /\ StartsWith(device.name, shopPrefix) THEN 1 ELSE 0)
    + (IF shopMac # None /\ device.addr = shopMac THEN 1 ELSE 0)

\* `found >= mode`
Matches(device) == Found(device) >= Mode

\* a Wand as the Shop holds it
NewWand(device) == [dev |-> device, connected |-> FALSE]

\* Shop.handleDiscovery, called with all three of its parameters
HandleDiscovery(device, isNewDev, isNewData) ==
    LET args == [device |-> device, isNewDev |-> isNewDev, isNewData |-> isNewData]
    IN  /\ calls' = <<>>
        /\ invoked' = <<>>
        /\ UNCHANGED <<wandVars, shopName, shopPrefix, shopMac>>
        /\ IF isNewDev /\ Matches(device)
              THEN IF ~wands.exists
                      THEN /\ wands' = wands
                           /\ op' = Op("handleDiscovery", args, NoClass, None,
                                       "AttributeError")
                      ELSE /\ Len(wands.items) < MaxWands
                           /\ wands' = [wands EXCEPT !.items = Append(@, NewWand(device))]
                           /\ op' = Op("handleDiscovery", args, NoClass, None, NoRaise)
              ELSE /\ wands' = wands
                   /\ op' = Op("handleDiscovery", args, NoClass, None, NoRaise)

\* what one wand.connect() of scan's loop can do: raise, or return with the
\* link reported up or down
ConnectOutcomes == {"raise", "up", "down"}

\* `for wand in self.wands: await wand.connect()`: the loop ends at the first
\* connect that raises
ScanConnect(items, outs) ==
    LET failing == {i \in 1..Len(items) : outs[i] = "raise"}
        stop == IF failing = {} THEN Len(items) + 1
                ELSE CHOOSE i \in failing : \A j \in failing : i <= j
        attempts == IF failing = {} THEN Len(items) ELSE stop
    IN  [items |-> [i \in 1..Len(items) |->
                      IF i < stop THEN [items[i] EXCEPT !.connected = (outs[i] = "up")]
                      ELSE items[i]],
         calls |-> [i \in 1..attempts |-> <<"connect">>],
         raised |-> failing # {}]

\* Shop.scan.  The loop over the discovered devices calls
\* self.handleDiscovery(device) with one argument where the method has three
\* required parameters, so the first iteration raises TypeError.  The
\* `if connect:` loop is therefore reached only after a discovery that
\* returned no device, with self.wands empty.
Scan(nameArg, prefixArg, macArg, connectArg, devices, ok) ==
    LET prefix == IF prefixArg = Omitted THEN ScanDefaultPrefix ELSE prefixArg
        args == [name |-> nameArg, prefix |-> prefixArg, mac |-> macArg,
                 connect |-> connectArg, devices |-> devices]
        produced == <<>>
    IN  /\ invoked' = <<>>
        /\ UNCHANGED wandVars
        /\ IF ~SelectorProvided(nameArg, prefix, macArg)
              THEN /\ ok /\ devices = <<>>
                   /\ calls' = <<>>
                   /\ op' = Op("scan", args, NoClass, None, "AssertionError")
                   /\ UNCHANGED shopVars
              ELSE /\ shopName' = IF nameArg # None THEN nameArg ELSE shopName
                   /\ shopPrefix' = IF nameArg = None /\ prefix # None
                                       THEN prefix ELSE shopPrefix
                   /\ shopMac' = IF nameArg = None /\ prefix = None /\ macArg # None
                                    THEN macArg ELSE shopMac
                   /\ IF ~ok
                         THEN /\ devices = <<>>
                              /\ wands' = [exists |-> TRUE, items |-> <<>>]
                              /\ calls' = <<<<"discover">>>>
                              /\ op' = Op("scan", args, NoClass, None, "TransportError")
                         ELSE IF Len(devices) > 0
                                 THEN /\ wands' = [exists |-> TRUE, items |-> <<>>]
                                      /\ calls' = <<<<"discover">>>>
                                      /\ op' = Op("scan", args, NoClass, None, "TypeError")
                                 ELSE \E outs \in [1..Len(produced) -> ConnectOutcomes] :
                                        LET loop == IF connectArg
                                                       THEN ScanConnect(produced, outs)
                                                       ELSE [items |-> produced,
                                                             calls |-> <<>>,
                                                             raised |-> FALSE]
                                        IN  /\ wands' = [exists |-> TRUE,
                                                         items |-> loop.items]
                                            /\ calls' = <<<<"discover">>>> \o loop.calls
                                            /\ op' = IF loop.raised
                                                 THEN Op("scan", args, NoClass, None,
                                                         "TransportError")
                                                 ELSE Op("scan", args, NoClass,
                                                         <<"list", loop.items>>, NoRaise)

ShopNext ==
    \/ \E nameArg \in NameArgs, prefixArg \in PrefixArgs, macArg \in MacArgs,
          connectArg \in BOOLEAN, devices \in DeviceLists, ok \in BOOLEAN :
            Scan(nameArg, prefixArg, macArg, connectArg, devices, ok)
    \/ \E device \in Devices, isNewDev \in BOOLEAN, isNewData \in BOOLEAN :
            HandleDiscovery(device, isNewDev, isNewData)

ShopSpec == Init /\ [][ShopNext]_vars

\* ---------------------------------------------------------------- Codec
\* 16-bit words at the edges of the signed range
Words == {0, 1, 32767, 32768, 32769, 65535}

\* int.to_bytes(w, 2, byteorder='little')
LEBytes(w) == <<w % 256, w \div 256>>

\* the 8-byte position buffers built from those words
Buffers ==
    {LEBytes(a) \o LEBytes(b) \o LEBytes(c) \o LEBytes(d) :
        a \in Words, b \in Words, c \in Words, d \in Words}

\* a session holding one position listener, about to receive a buffer
CodecInit ==
    /\ connected = TRUE
    /\ link = TRUE
    /\ callbacks = [e \in EventSet |->
                      IF e = "position" THEN <<[id |-> 1, cb |-> "f"]>> ELSE <<>>]
    /\ subscribed = [e \in EventSet |-> FALSE]
    /\ cached = [k \in ReadKinds |-> None]
    /\ nextId = 2
    /\ pinned = [e \in EventSet |-> FALSE]
    /\ ShopInit
    /\ \E data \in Buffers : op = Op("buffer", [data |-> data], NoClass, None, NoRaise)
    /\ calls = <<>>
    /\ invoked = <<>>

\* the transport delivers the buffer as a position notification
DeliverPosition ==
    /\ op.name = "buffer"
    /\ \E promotion \in NumpyPromotions :
          HandleNotification(PositionHandle, op.args.data, promotion)

CodecNext == DeliverPosition

CodecSpec == CodecInit /\ [][CodecNext]_vars

\* ================================================================ claims
StopCalled == \E i \in 1..Len(calls) : calls[i][1] = "stop_notify"

\* C1: on a connected session, an off(id, persist=false) that removes a
\* listener calls stop_notify for that event class if and only if the removal
\* leaves the class's listener map empty.
C1_UnsubscribeIffEmpty ==
    (op.name = "off" /\ connected /\ op.cls # NoClass /\ ~op.args.persist)
        => (StopCalled <=> callbacks[op.cls] = <<>>)

\* C2: off(id, persist=true) removing the last listener of an event class
\* makes no stop_notify call, removes the listener and returns True.
C2_PersistKeepsSubscription ==
    [][\A e \in EventSet :
         (op'.name = "off" /\ op'.args.persist /\ Ids(e) = {op'.args.uuid})
            => /\ calls' = <<>>
               /\ op'.raised = NoRaise
               /\ op'.ret = Bool(TRUE)
               /\ callbacks'[e] = <<>>]_vars

C2_Witness ==
    /\ op.name = "off"
    /\ op.args.persist
    /\ op.cls # NoClass
    /\ callbacks[op.cls] = <<>>
    /\ op.ret = Bool(TRUE)

\* C3: off(id) with an id that no listener map holds returns False, makes no
\* transport call and leaves every listener map and subscription flag as it
\* was.
C3_UnknownIdNoEffect ==
    [][(op'.name = "off" /\ \A e \in EventSet : op'.args.uuid \notin Ids(e))
          => /\ op'.ret = Bool(FALSE)
             /\ op'.raised = NoRaise
             /\ calls' = <<>>
             /\ callbacks' = callbacks
             /\ subscribed' = subscribed]_vars

\* an id that was issued and removed is passed to off() again while another
\* listener is registered
C3_Witness ==
    /\ op.name = "off"
    /\ op.ret = Bool(FALSE)
    /\ op.args.uuid < nextId
    /\ \E e \in EventSet : callbacks[e] # <<>>

\* C4: connect() on a session that is already connected fails with
\* InvalidState, makes no transport connect and leaves the state unchanged.
C4_SecondConnectRejected ==
    [][(op'.name = "connect" /\ connected)
          => /\ op'.raised = "InvalidState"
             /\ calls' = <<>>
             /\ connected' = connected]_vars

\* C5: in one connection lifetime the first one-shot read of a kind performs
\* exactly one transport read, and a call that follows a successful call of
\* the same kind returns the same value without touching the transport.
C5_ReadOnce ==
    [][/\ (op.name = "connect" /\ op.raised = NoRaise /\ connected
             /\ op'.name = "get")
          => calls' = <<<<"read_gatt_char", ReadRef(op'.args.kind)[2]>>>>
       /\ (op.name = "get" /\ op.raised = NoRaise /\ op'.name = "get"
             /\ op'.args.kind = op.args.kind)
          => (calls' = <<>> /\ op'.raised = NoRaise /\ op'.ret = op.ret)]_vars

\* C6 as stated: a scan given none of name, prefix and mac -- prefix passed as
\* None or left out -- fails with the assertion error before discovery.
C6_NoSelectorFails ==
    (op.name = "scan" /\ op.args.name = None /\ op.args.mac = None
        /\ op.args.prefix \in {None, Omitted})
        => (op.raised = "AssertionError" /\ calls = <<>>)

\* C6 amended: a scan whose name, prefix and mac are all None fails with the
\* assertion error before discovery, returns nothing and leaves the Shop as it
\* was; a scan that leaves prefix out takes the default prefix, passes the
\* assertion and goes on to discovery.
C6_ExplicitNoneFails ==
    [][op'.name = "scan"
          => /\ (op'.args.name = None /\ op'.args.prefix = None
                   /\ op'.args.mac = None)
                => /\ op'.raised = "AssertionError"
                   /\ calls' = <<>>
                   /\ op'.ret = None
                   /\ UNCHANGED shopVars
             /\ op'.args.prefix = Omitted
                => /\ op'.raised # "AssertionError"
                   /\ calls' = <<<<"discover">>>>]_vars

\* the failing scan comes after a scan that set the Shop's fields
C6_Witness ==
    /\ op.name = "scan"
    /\ op.args.prefix = None
    /\ op.raised = "AssertionError"
    /\ wands.exists
    /\ shopPrefix # None

\* name by equality, prefix by starts-with, mac by equality, over the fields
\* that are set
SelectorMatches(device, name, prefix, mac) ==
    /\ name # None => device.name = name
    /\ prefix # None => (device.name # None /\ StartsWith(device.name, prefix))
    /\ mac # None => device.addr = mac

\* C7: after a scan whose discovery returned, the Shop holds a Session for
\* exactly the discovered devices that match every selector field set in the
\* call.
C7_MatchIffAllSet ==
    (op.name = "scan" /\ op.raised \notin {"AssertionError", "TransportError"})
        => wands.items =
             LET prefix == IF op.args.prefix = Omitted
                              THEN ScanDefaultPrefix ELSE op.args.prefix
                 hits == SelectSeq(op.args.devices,
                           LAMBDA d : SelectorMatches(d, op.args.name, prefix,
                                                      op.args.mac))
             IN  [i \in 1..Len(hits) |-> NewWand(hits[i])]

\* C8: on() for an event class that already has listeners makes no
\* start_notify call.
C8_SubscribeOnlyFirst ==
    [][(op'.name = "on" /\ op'.args.event \in EventSet
          /\ callbacks[op'.args.event] # <<>>)
          => (\A i \in 1..Len(calls') : calls'[i][1] # "start_notify")]_vars

\* C9: for each event class the subscribed flag is true if and only if the
\* listener map is non-empty or the last removal was made with persist (with
\* the map empty, the last removal is the one that emptied it).
C9_SubscribedIffListening ==
    \A e \in EventSet : subscribed[e] <=> (callbacks[e] # <<>> \/ pinned[e])

\* C10: after a disconnect() of a connected session completes, the session
\* is disconnected, every listener map is empty, every subscribed flag is
\* false and the disconnect made no stop_notify call.
C10_DisconnectClears ==
    [][(op'.name = "disconnect" /\ op'.raised = NoRaise /\ connected)
          => /\ ~connected'
             /\ \A e \in EventSet : callbacks'[e] = <<>> /\ ~subscribed'[e]
             /\ \A i \in 1..Len(calls') : calls'[i][1] # "stop_notify"]_vars

\* C11: after a disconnect() followed by a successful connect(), no reading
\* cached in the previous connection is left, so that the first get_* of each
\* kind goes to the transport (get_* reads exactly when nothing is cached).
C11_ReconnectClearsCache ==
    [][(op.name = "disconnect" /\ op.raised = NoRaise
          /\ op'.name = "connect" /\ op'.raised = NoRaise /\ connected')
          => \A k \in ReadKinds : cached'[k] = None]_vars

\* C12: a get_* called while the session is not connected fails, makes no
\* transport read and caches nothing.
C12_ReadNeedsConnection ==
    [][(op'.name = "get" /\ ~connected)
          => /\ op'.raised # NoRaise
             /\ calls' = <<>>
             /\ cached' = cached]_vars

\* C13: on() called while the session is not connected adds no listener,
\* returns no id and makes no start_notify call.
C13_OnNeedsConnection ==
    [][(op'.name = "on" /\ ~connected)
          => /\ callbacks' = callbacks
             /\ op'.ret = None
             /\ \A i \in 1..Len(calls') : calls'[i][1] # "start_notify"]_vars

\* a notification of an event class whose payload _on_* can decode
Dispatched ==
    op.name = "handleNotification" /\ op.cls # NoClass /\ op.raised # "IndexError"

\* C14: for a notification of an event class, the hook of that class is
\* invoked first and then every callback registered for the class, once each,
\* in registration order, and nothing else.
C14_DispatchInOrder ==
    Dispatched
        => /\ Len(invoked) = 1 + Len(callbacks[op.cls])
           /\ invoked[1].fn = HookOf(op.cls)
           /\ \A i \in 1..Len(callbacks[op.cls]) :
                 /\ invoked[i + 1].id = callbacks[op.cls][i].id
                 /\ invoked[i + 1].fn = callbacks[op.cls][i].cb

\* C15: when a registered callback raises during a dispatch, the callbacks
\* registered after it are still invoked and handleNotification returns
\* normally.
C15_CallbackIsolation ==
    (Dispatched /\ \E i \in 1..Len(callbacks[op.cls]) :
                      CallbackRaises(callbacks[op.cls][i].cb))
        => /\ op.raised = NoRaise
           /\ \A i \in 1..Len(callbacks[op.cls]) :
                 \E j \in 1..Len(invoked) : invoked[j].id = callbacks[op.cls][i].id

\* C16: an on() on a connected session whose start_notify call fails leaves
\* the listener map as it was before the call.
C16_FailedSubscribeRollsBack ==
    [][(op'.name = "on" /\ connected /\ op'.raised = "TransportError")
          => callbacks' = callbacks]_vars

\* C17: a scan with connect set that discovered devices attempts one connect
\* per Session it produced and returns the list of those Sessions.
C17_AutoConnectAll ==
    (op.name = "scan" /\ op.args.connect /\ Len(op.args.devices) > 0)
        => /\ op.raised = NoRaise
           /\ op.ret = <<"list", wands.items>>
           /\ Len(calls) = 1 + Len(wands.items)

\* C18: after a connect() whose transport connect failed the session is not
\* connected, and after any connect() the session is connected only if the
\* transport reports the link of self.client as up.
C18_FailedConnectDisconnected ==
    op.name = "connect"
        => /\ op.raised # NoRaise => ~connected
           /\ connected => link

\* the two's-complement reading of the little-endian word at byte offset k
S16(data, k) ==
    LET u == data[k + 1] + 256 * data[k + 2]
    IN  IF u < 32768 THEN u ELSE u - 65536

\* C19: for every 8-byte buffer the hook and every callback receive
\* (x, y, z, w) with y = s16(0), x = -s16(2), w = -s16(4), z = s16(6) as exact
\* integers.
C19_PositionExact ==
    (op.name = "handleNotification" /\ op.cls = "position"
        /\ Len(op.args.data) = 8)
        => /\ Len(invoked) = 2
           /\ \A i \in 1..Len(invoked) :
                 invoked[i].args = << 0 - S16(op.args.data, 2), S16(op.args.data, 0),
                                      S16(op.args.data, 6), 0 - S16(op.args.data, 4) >>

\* C20: once a scan has taken its selector, what handleDiscovery matches does
\* not depend on earlier scans: a device that matches every field set in this
\* call is not turned away by a field an earlier call had set.
C20_ScanIgnoresEarlierSelector ==
    [][(op'.name = "scan" /\ op'.raised # "AssertionError")
          => LET prefix == IF op'.args.prefix = Omitted
                              THEN ScanDefaultPrefix ELSE op'.args.prefix
             IN  \A d \in Devices :
                    SelectorMatches(d, op'.args.name, prefix, op'.args.mac)
                       => Matches(d)']_vars

====
